---- MODULE Spec2Model ----
(***************************************************************************)
(* BedrockOpenAIModel.get_response (src/backend/researcher/server.py):     *)
(* the adapter that turns the orchestrator's call (system instructions,    *)
(* input, model settings, tools) into one wire request, sends it, and      *)
(* decodes the wire response into a ModelResponse.                          *)
(*                                                                         *)
(* Spec models one call at a time; its stages are the actions              *)
(*   Call, Normalize, BuildRequest, InvokeModel, InvokeModelRaises,        *)
(*   Decode, Return, Discard.                                              *)
(* SpecConcurrent models the construction of the adapter and concurrent    *)
(* get_response / stream_response calls on it.                             *)
(* SpecMigration models src/backend/database/run_pgvector_migration.py,    *)
(* SpecIngest the lambda_handler of src/backend/ingest/ingest_pgvector.py. *)
(***************************************************************************)
EXTENDS Integers, Sequences, FiniteSets, TLC

VARIABLES
    pc,                   \* position of the call in get_response
    system_instructions,  \* argument
    input,                \* argument
    model_settings,       \* argument
    tools,                \* argument
    messages,             \* local: the wire message list
    body,                 \* local: the wire request
    result,               \* local: the parsed wire response
    output,               \* local: the output item list
    ret,                  \* the ModelResponse returned
    err,                  \* the exception the call ended with ("" when none)
    invoke_calls,         \* how often the call has called client.invoke_model
    (* concurrent calls on one adapter (SpecConcurrent) *)
    adapter,              \* the BedrockOpenAIModel instance: model_id, client
    calls,                \* the state of each concurrent call
    (* run_pgvector_migration.py (SpecMigration) *)
    migration_pc,         \* "loop", "done" or "crashed"
    success_count,
    error_count,
    executed,             \* the statements sent to execute_statement, with outcomes
    (* ingest_pgvector.lambda_handler (SpecIngest) *)
    handler_pc,           \* position in lambda_handler
    event,                \* argument
    aws_calls,            \* the AWS client calls made so far, in order
    response              \* what lambda_handler returned

callVars == <<pc, system_instructions, input, model_settings, tools,
              messages, body, result, output, ret, err, invoke_calls>>
concurrentVars == <<adapter, calls>>
migrationVars == <<migration_pc, success_count, error_count, executed>>
ingestVars == <<handler_pc, event, aws_calls, response>>

vars == <<callVars, concurrentVars, migrationVars, ingestVars>>

-----------------------------------------------------------------------------
(* Bounds of the exploration.                                              *)

MaxInput == 2        \* longest input list
MaxTools == 2        \* longest offered tool list
MaxToolCalls == 2    \* longest tool_calls list of a wire response

-----------------------------------------------------------------------------
(* Python values that reach str(), truthiness tests and " ".join().        *)
(* t is the Python type, s the text of a str (or the decimal digits of an   *)
(* int), parts the elements of a list.                                     *)

Absent == [t |-> "absent", s |-> "", parts |-> <<>>]
None == [t |-> "none", s |-> "", parts |-> <<>>]
StrV(x) == [t |-> "str", s |-> x, parts |-> <<>>]
IntV(digits) == [t |-> "int", s |-> digits, parts |-> <<>>]
ListV(ps) == [t |-> "list", s |-> "", parts |-> ps]

(* Elements of a content list: a part carrying a text field, a bare str,   *)
(* and a part with no text (an image part).                                *)
TextPart(x) == [k |-> "text", text |-> x]
StrPart(x) == [k |-> "str", text |-> x]
ImagePart == [k |-> "image", text |-> ""]

RECURSIVE JoinWith(_, _)
(* sep.join(strs) *)
JoinWith(sep, strs) ==
    IF strs = <<>> THEN ""
    ELSE IF Len(strs) = 1 THEN strs[1]
    ELSE strs[1] \o sep \o JoinWith(sep, Tail(strs))

(* repr() of a list element, as str(list) prints it *)
PyRepr(part) ==
    CASE part.k = "text" -> "{'type': 'input_text', 'text': '" \o part.text \o "'}"
      [] part.k = "str" -> "'" \o part.text \o "'"
      [] OTHER -> "{'type': 'input_image'}"

(* str(v): a str is itself, None is "None", an int its digits, a list its  *)
(* bracketed repr.                                                         *)
PyStr(v) ==
    CASE v.t = "str" -> v.s
      [] v.t = "int" -> v.s
      [] v.t = "none" -> "None"
      [] v.t = "list" ->
            "[" \o JoinWith(", ", [i \in 1..Len(v.parts) |-> PyRepr(v.parts[i])]) \o "]"
      [] OTHER -> ""

(* bool(v) *)
Truthy(v) ==
    CASE v.t = "str" -> v.s # ""
      [] v.t = "int" -> v.s # "0"
      [] v.t = "list" -> v.parts # <<>>
      [] OTHER -> FALSE

-----------------------------------------------------------------------------
(* Input elements.  shape is the Python type of the element (dict, an      *)
(* object with attributes, str, int); fields the keys (dict) or attributes *)
(* (object) it has.                                                        *)

Item(shape, fields, role, content, type, call_id, out, text) ==
    [shape |-> shape, fields |-> fields, role |-> role, content |-> content,
     type |-> type, call_id |-> call_id, output |-> out, text |-> text]

Rec(role, content) ==
    Item("dict", {"role", "content"}, role, content, "", "", Absent, "")
Obj(role, content) ==
    Item("obj", {"role", "content"}, role, content, "", "", Absent, "")
ToolOut(shape, call_id, out) ==
    Item(shape, {"type", "call_id", "output"}, "", Absent,
         "function_call_output", call_id, out, "")
ToolOutWithRole(shape, call_id, out, role, content) ==
    Item(shape, {"type", "call_id", "output", "role", "content"}, role, content,
         "function_call_output", call_id, out, "")
BareText(x) == Item("str", {}, "", Absent, "", "", Absent, x)
FunctionCallRec ==
    Item("dict", {"type", "call_id", "name", "arguments"}, "", Absent,
         "function_call", "c1", Absent, "")
Number == Item("int", {}, "", Absent, "", "", Absent, "7")

TwoParts == ListV(<<TextPart("a"), TextPart("b")>>)
MixedParts == ListV(<<TextPart("a"), StrPart("b"), ImagePart>>)

Items ==
    { Rec("user", StrV("hi")), Rec("system", StrV("hi")),
      Rec("user", TwoParts), Rec("assistant", None),
      Obj("user", StrV("hi")), Obj("system", StrV("hi")),
      Obj("user", TwoParts), Obj("user", MixedParts), Obj("assistant", None),
      ToolOut("dict", "c1", StrV("ok")), ToolOut("obj", "c1", StrV("ok")),
      ToolOut("dict", "c2", IntV("42")),
      ToolOutWithRole("dict", "c1", StrV("ok"), "user", StrV("hi")),
      ToolOutWithRole("obj", "c1", StrV("ok"), "user", StrV("hi")),
      BareText("hi"), FunctionCallRec, Number }

SeqsUpTo(S, n) == UNION { [1..k -> S] : k \in 0..n }

(* input is a str or a list *)
InputStr(x) == [t |-> "str", s |-> x, items |-> <<>>]
InputList(xs) == [t |-> "list", s |-> "", items |-> xs]
Inputs == {InputStr("Hello")} \cup { InputList(xs) : xs \in SeqsUpTo(Items, MaxInput) }

-----------------------------------------------------------------------------
(* Turn normalisation, lines 44-86.                                        *)

IsDict(item) == item.shape = "dict"
HasKey(item, f) == item.shape = "dict" /\ f \in item.fields
HasAttr(item, f) == item.shape = "obj" /\ f \in item.fields

Message(role, content) ==
    [role |-> role, content |-> content, has_tool_call_id |-> FALSE, tool_call_id |-> ""]
ToolMessage(call_id, content) ==
    [role |-> "tool", content |-> content, has_tool_call_id |-> TRUE, tool_call_id |-> call_id]

(* lines 70-75: the text of the parts that have one *)
TextParts(parts) ==
    LET Kept == SelectSeq(parts, LAMBDA p : p.k \in {"text", "str"})
    IN  [i \in 1..Len(Kept) |-> Kept[i].text]

(* lines 68-76 *)
ObjectContent(content) ==
    IF content.t = "list" THEN StrV(JoinWith(" ", TextParts(content.parts)))
    ELSE content

(* lines 57-58 *)
RecordContent(content) == PyStr(content)

(* lines 56-86: the messages one element of the input list appends *)
NormalizeItem(item) ==
    IF IsDict(item) /\ HasKey(item, "role") /\ HasKey(item, "content")
    THEN <<Message(item.role, RecordContent(item.content))>>
    ELSE IF IsDict(item) /\ HasKey(item, "type") /\ item.type = "function_call_output"
    THEN <<ToolMessage(IF HasKey(item, "call_id") THEN item.call_id ELSE "",
                       PyStr(IF HasKey(item, "output") THEN item.output ELSE StrV("")))>>
    ELSE IF HasAttr(item, "role") /\ HasAttr(item, "content")
    THEN <<Message(item.role, PyStr(ObjectContent(item.content)))>>
    ELSE IF HasAttr(item, "type") /\ item.type = "function_call_output"
    THEN <<ToolMessage(IF HasAttr(item, "call_id") THEN item.call_id ELSE "",
                       PyStr(IF HasAttr(item, "output") THEN item.output ELSE StrV("")))>>
    ELSE IF item.shape = "str"
    THEN <<Message("user", item.text)>>
    ELSE <<>>

RECURSIVE NormalizeList(_)
(* lines 55-86: the for loop *)
NormalizeList(items) ==
    IF items = <<>> THEN <<>>
    ELSE NormalizeItem(Head(items)) \o NormalizeList(Tail(items))

(* lines 47-49 *)
SystemMessages(sys) ==
    IF Truthy(sys) THEN <<Message("system", sys.s)>> ELSE <<>>

(* lines 52-86 *)
NormalizeInput(inp) ==
    IF inp.t = "str" THEN <<Message("user", inp.s)>>
    ELSE NormalizeList(inp.items)

(* lines 44-86 *)
BuildMessages(sys, inp) == SystemMessages(sys) \o NormalizeInput(inp)

-----------------------------------------------------------------------------
(* Request building, lines 88-112.                                         *)

DefaultMaxTokens == 4096

JNull == [t |-> "null", n |-> 0]
JInt(n) == [t |-> "int", n |-> n]

(* model_settings: None, or an object that may have a max_tokens attribute *)
NoSettings == [given |-> FALSE, has_max_tokens |-> FALSE, max_tokens |-> JNull]
Settings(has, v) == [given |-> TRUE, has_max_tokens |-> has, max_tokens |-> v]
SettingsValues ==
    { NoSettings, Settings(FALSE, JNull), Settings(TRUE, JNull),
      Settings(TRUE, JInt(256)), Settings(TRUE, JInt(8192)) }

(* line 91: getattr(model_settings, 'max_tokens', 4096) if model_settings else 4096 *)
MaxTokens(settings) ==
    IF settings.given
    THEN IF settings.has_max_tokens THEN settings.max_tokens ELSE JInt(DefaultMaxTokens)
    ELSE JInt(DefaultMaxTokens)

(* line 102 *)
AllowedToolNames == {"ingest_financial_document"}

(* Offered tools: function tools have name, description and               *)
(* params_json_schema; hosted tools have a fixed name and no schema.       *)
FunctionTool(name, description) ==
    [name |-> name, description |-> description, attrs |-> {"name", "description", "params_json_schema"},
     params_json_schema |-> "schema:" \o description]
HostedTool(name) ==
    [name |-> name, description |-> "", attrs |-> {"name"}, params_json_schema |-> ""]
ToolKinds ==
    { FunctionTool("ingest_financial_document", "store"),
      FunctionTool("ingest_financial_document", "store v2"),
      FunctionTool("browser_navigate", "open a page"),
      HostedTool("web_search_preview") }

NoTools == [given |-> FALSE, list |-> <<>>]
ToolList(ts) == [given |-> TRUE, list |-> ts]
ToolsValues == {NoTools} \cup { ToolList(ts) : ts \in SeqsUpTo(ToolKinds, MaxTools) }

(* lines 103-110 *)
WireTool(tool) ==
    [type |-> "function",
     function |-> [name |-> tool.name,
                   description |-> IF "description" \in tool.attrs THEN tool.description ELSE "",
                   parameters |-> tool.params_json_schema]]

(* lines 99-102 without the allow-list test of line 102 *)
PassesFilter_AnyName(tool) ==
    /\ "name" \in tool.attrs
    /\ "params_json_schema" \in tool.attrs

(* lines 99-102: the tools that pass the filter *)
PassesFilter(tool) ==
    /\ "name" \in tool.attrs
    /\ "params_json_schema" \in tool.attrs
    /\ tool.name \in AllowedToolNames

(* lines 97-110 *)
OpenAITools(ts) ==
    LET Kept == SelectSeq(ts, PassesFilter)
    IN  [i \in 1..Len(Kept) |-> WireTool(Kept[i])]

(* lines 96, 111-112: whether body gets the "tools" key *)
SetsToolsKey(tls) == tls.given /\ tls.list # <<>> /\ OpenAITools(tls.list) # <<>>

(* lines 89-112 *)
BuildBody(msgs, settings, tls) ==
    [messages |-> msgs,
     max_tokens |-> MaxTokens(settings),
     has_tools |-> SetsToolsKey(tls),
     tools |-> IF SetsToolsKey(tls) THEN OpenAITools(tls.list) ELSE <<>>]

NoBody == [messages |-> <<>>, max_tokens |-> JNull, has_tools |-> FALSE, tools |-> <<>>]

-----------------------------------------------------------------------------
(* Wire responses: json.loads(response['body'].read()), line 124.          *)

ToolCall(fields, id, name, arguments) ==
    [fields |-> fields, id |-> id, name |-> name, arguments |-> arguments]
ToolCallKinds ==
    { ToolCall({"id", "function"}, "c1", "ingest_financial_document", "{\"x\":1}"),
      ToolCall({"id", "function"}, "c2", "browser_navigate", "{}"),
      ToolCall({"function"}, "", "ingest_financial_document", "{}") }

(* message.tool_calls: key absent, null, or a list *)
NoToolCalls == [t |-> "absent", list |-> <<>>]
NullToolCalls == [t |-> "null", list |-> <<>>]
ToolCallList(tcs) == [t |-> "list", list |-> tcs]
ToolCallsValues ==
    {NoToolCalls, NullToolCalls}
        \cup { ToolCallList(tcs) : tcs \in SeqsUpTo(ToolCallKinds, MaxToolCalls) }

ContentValues == {Absent, None, StrV(""), StrV("hello")}

WireMessage(content, tool_calls) ==
    [t |-> "dict", content |-> content, tool_calls |-> tool_calls]
NullMessage == [t |-> "null", content |-> Absent, tool_calls |-> NoToolCalls]

Choice(has_message, message) == [has_message |-> has_message, message |-> message]

(* usage: key absent, null, or a dict holding some of the counters *)
CounterNames == {"prompt_tokens", "completion_tokens", "total_tokens"}
UsageDict(has) ==
    [t |-> "dict", has |-> has,
     prompt_tokens |-> 10, completion_tokens |-> 5, total_tokens |-> 15]
NoUsage == [t |-> "absent", has |-> {},
            prompt_tokens |-> 0, completion_tokens |-> 0, total_tokens |-> 0]
NullUsage == [t |-> "null", has |-> {},
              prompt_tokens |-> 0, completion_tokens |-> 0, total_tokens |-> 0]
UsageValues == {NoUsage, NullUsage} \cup { UsageDict(has) : has \in SUBSET CounterNames }

IdValues == {Absent, None, StrV("r1")}

WireResult(choices_t, choices, id, usage) ==
    [choices_t |-> choices_t, choices |-> choices, id |-> id, usage |-> usage]
Reply(message, id, usage) == WireResult("list", <<Choice(TRUE, message)>>, id, usage)

(* responses without the top-level structure *)
MalformedResults ==
    { WireResult("absent", <<>>, StrV("r1"), UsageDict(CounterNames)),
      WireResult("null", <<>>, StrV("r1"), UsageDict(CounterNames)),
      WireResult("list", <<>>, StrV("r1"), UsageDict(CounterNames)),
      WireResult("list", <<Choice(FALSE, NullMessage)>>, StrV("r1"), UsageDict(CounterNames)),
      WireResult("list", <<Choice(FALSE, NullMessage)>>, Absent, NoUsage) }

Results ==
    MalformedResults
      \cup { Reply(NullMessage, StrV("r1"), UsageDict(CounterNames)) }
      \cup { Reply(WireMessage(c, tc), StrV("r1"), UsageDict(CounterNames)) :
                c \in ContentValues, tc \in ToolCallsValues }
      \cup { Reply(WireMessage(c, NoToolCalls), id, u) :
                c \in {StrV(""), StrV("hello")}, id \in IdValues, u \in UsageValues }

(* the replies explored for the requests other than the reference request *)
BasicResults ==
    { Reply(WireMessage(StrV("hello"), NoToolCalls), StrV("r1"), UsageDict(CounterNames)),
      Reply(WireMessage(Absent, NoToolCalls), StrV("r1"), UsageDict(CounterNames)) }

NoResult == WireResult("absent", <<>>, Absent, NoUsage)

-----------------------------------------------------------------------------
(* Response decoding, lines 125-159.                                       *)

(* line 125: result['choices'][0]['message'], the exception it raises ("" when none) *)
MessageLookupError(res) ==
    CASE res.choices_t = "absent" -> "KeyError"
      [] res.choices_t = "null" -> "TypeError"
      [] res.choices = <<>> -> "IndexError"
      [] ~res.choices[1].has_message -> "KeyError"
      [] OTHER -> ""

(* line 125 *)
MessageOf(res) == res.choices[1].message

(* lines 133-139 with a fixed id in place of tool_call['id'] *)
FunctionCallItem_FixedId(tc) ==
    [type |-> "function_call", id |-> "call_0", call_id |-> "call_0", name |-> tc.name,
     arguments |-> tc.arguments, role |-> "", status |-> "", text |-> ""]

(* lines 133-139 *)
FunctionCallItem(tc) ==
    [type |-> "function_call", id |-> tc.id, call_id |-> tc.id, name |-> tc.name,
     arguments |-> tc.arguments, role |-> "", status |-> "", text |-> ""]
OutputMessage(id, text) ==
    [type |-> "message", id |-> id, call_id |-> "", name |-> "",
     arguments |-> "", role |-> "assistant", status |-> "completed", text |-> text]

(* line 131 *)
HasToolCalls(message) == message.tool_calls.t = "list" /\ message.tool_calls.list # <<>>

(* lines 131-139 *)
ToolCallItems(message) ==
    IF HasToolCalls(message)
    THEN [i \in 1..Len(message.tool_calls.list) |->
              FunctionCallItem(message.tool_calls.list[i])]
    ELSE <<>>

(* lines 144, 154: "msg_" + result.get('id', 'unknown') *)
MessageId(res) == "msg_" \o (IF res.id.t = "absent" THEN "unknown" ELSE res.id.s)

(* lines 142-149 *)
TextItems(res, message) ==
    IF Truthy(message.content)
    THEN <<OutputMessage(MessageId(res), message.content.s)>>
    ELSE <<>>

(* lines 152-159 left out: an empty output stays empty *)
OrEmptyMessage_NoSynthesis(res, out) == out

(* lines 152-159 *)
OrEmptyMessage(res, out) ==
    IF out = <<>> THEN <<OutputMessage(MessageId(res), "")>> ELSE out

(* lines 130-149 with the two blocks swapped: the text item first *)
DecodeOutput_TextFirst(res, message) ==
    OrEmptyMessage(res, TextItems(res, message) \o ToolCallItems(message))

(* lines 127-159 *)
DecodeOutput(res, message) ==
    OrEmptyMessage(res, ToolCallItems(message) \o TextItems(res, message))

(* lines 131-159: the exception raised while building the output ("" when none) *)
OutputError(res, message) ==
    CASE message.t = "null" -> "TypeError"
      [] HasToolCalls(message)
           /\ \E i \in 1..Len(message.tool_calls.list) :
                  ~({"id", "function"} \subseteq message.tool_calls.list[i].fields)
         -> "KeyError"
      [] res.id.t = "none"
           /\ (Truthy(message.content) \/ ~HasToolCalls(message)) -> "TypeError"
      [] OTHER -> ""

(* lines 125-159 *)
DecodeError(res) ==
    IF MessageLookupError(res) # "" THEN MessageLookupError(res)
    ELSE OutputError(res, MessageOf(res))

-----------------------------------------------------------------------------
(* The ModelResponse, lines 161-171.                                       *)

(* lines 166-168 with the counters read only from a complete usage object *)
Counter_AllOrNothing(usage, name) ==
    IF usage.t = "dict" /\ usage.has = CounterNames
    THEN CASE name = "prompt_tokens" -> usage.prompt_tokens
           [] name = "completion_tokens" -> usage.completion_tokens
           [] OTHER -> usage.total_tokens
    ELSE 0

(* lines 162, 166-168: usage_data.get(name, 0) *)
Counter(usage, name) ==
    IF usage.t = "dict" /\ name \in usage.has
    THEN CASE name = "prompt_tokens" -> usage.prompt_tokens
           [] name = "completion_tokens" -> usage.completion_tokens
           [] OTHER -> usage.total_tokens
    ELSE 0

(* line 162-168: None.get raises *)
UsageError(res) == IF res.usage.t = "null" THEN "AttributeError" ELSE ""

ModelResponse(out, res) ==
    [output |-> out,
     usage |-> [input_tokens |-> Counter(res.usage, "prompt_tokens"),
                output_tokens |-> Counter(res.usage, "completion_tokens"),
                total_tokens |-> Counter(res.usage, "total_tokens")],
     response_id |-> res.id]

NoResponse == ModelResponse(<<>>, NoResult)

-----------------------------------------------------------------------------
(* The call.                                                               *)

SystemInstructionValues == {None, StrV(""), StrV("You are a researcher")}

ReferenceInput == InputStr("Hello")

(* The argument tuples explored: every system_instructions and input with  *)
(* no settings and no tools, and every settings and tools with the         *)
(* reference input.                                                        *)
CallArgs ==
    { <<sys, inp, NoSettings, NoTools>> :
          sys \in SystemInstructionValues, inp \in Inputs }
      \cup { <<None, ReferenceInput, st, tl>> :
                st \in SettingsValues, tl \in ToolsValues }

ReferenceBody == BuildBody(<<Message("user", "Hello")>>, NoSettings, NoTools)

(* The replies of the endpoint explored for a request: all of Results for  *)
(* the reference request, the basic ones for every other request.          *)
EndpointReplies(b) == IF b = ReferenceBody THEN Results ELSE BasicResults

(* SpecConcurrent: no adapter yet, every call slot free *)
NoArgs == <<None, InputList(<<>>), NoSettings, NoTools>>
NoRequest == [sent |-> FALSE, modelId |-> None, body |-> NoBody]
IdleCall ==
    [pc |-> "idle", entry |-> "", given |-> NoArgs, args |-> NoArgs,
     messages |-> <<>>, body |-> NoBody, request |-> NoRequest, result |-> NoResult,
     output |-> <<>>, ret |-> NoResponse, err |-> "", invoke_calls |-> 0]
NoAdapter ==
    [state |-> "none", model_id |-> Absent, client |-> [service |-> "", region |-> ""],
     err |-> ""]

MaxCalls == 2        \* number of concurrent calls
CallIds == 1..MaxCalls

InitConcurrent ==
    /\ adapter = NoAdapter
    /\ calls = [c \in CallIds |-> IdleCall]

(* SpecMigration: lines 61-62 *)
InitMigration ==
    /\ migration_pc = "loop"
    /\ success_count = 0
    /\ error_count = 0
    /\ executed = <<>>

(* SpecIngest: lambda_handler not called yet *)
NoEvent == [t |-> "none"]
NoHandlerResponse == [statusCode |-> 0]
InitIngest ==
    /\ handler_pc = "idle"
    /\ event = NoEvent
    /\ aws_calls = <<>>
    /\ response = NoHandlerResponse

Init ==
    /\ InitConcurrent
    /\ InitMigration
    /\ InitIngest
    /\ pc = "idle"
    /\ system_instructions = None
    /\ input = InputList(<<>>)
    /\ model_settings = NoSettings
    /\ tools = NoTools
    /\ messages = <<>>
    /\ body = NoBody
    /\ result = NoResult
    /\ output = <<>>
    /\ ret = NoResponse
    /\ err = ""
    /\ invoke_calls = 0

(* lines 31-43: get_response is called *)
Call ==
    /\ pc = "idle"
    /\ \E a \in CallArgs :
          /\ system_instructions' = a[1]
          /\ input' = a[2]
          /\ model_settings' = a[3]
          /\ tools' = a[4]
    /\ pc' = "normalize"
    /\ UNCHANGED <<messages, body, result, output, ret, err, invoke_calls>>
    /\ UNCHANGED <<concurrentVars, migrationVars, ingestVars>>

(* lines 44-86 *)
Normalize ==
    /\ pc = "normalize"
    /\ messages' = BuildMessages(system_instructions, input)
    /\ pc' = "build"
    /\ UNCHANGED <<system_instructions, input, model_settings, tools,
                   body, result, output, ret, err, invoke_calls>>
    /\ UNCHANGED <<concurrentVars, migrationVars, ingestVars>>

(* lines 88-115 *)
BuildRequest ==
    /\ pc = "build"
    /\ body' = BuildBody(messages, model_settings, tools)
    /\ pc' = "invoke"
    /\ UNCHANGED <<system_instructions, input, model_settings, tools,
                   messages, result, output, ret, err, invoke_calls>>
    /\ UNCHANGED <<concurrentVars, migrationVars, ingestVars>>

(* lines 117-124: invoke_model returns and its body is parsed *)
InvokeModel ==
    /\ pc = "invoke"
    /\ invoke_calls' = invoke_calls + 1
    /\ \E r \in EndpointReplies(body) : result' = r
    /\ pc' = "decode"
    /\ UNCHANGED <<system_instructions, input, model_settings, tools,
                   messages, body, output, ret, err>>
    /\ UNCHANGED <<concurrentVars, migrationVars, ingestVars>>

(* lines 117-122 wrapped in a retry: a raise is followed by a second call *)
InvokeModelRaises_Retries ==
    /\ pc = "invoke"
    /\ invoke_calls' = invoke_calls + 1
    /\ IF invoke_calls = 0
       THEN UNCHANGED <<pc, err>>
       ELSE pc' = "error" /\ err' = "ClientError"
    /\ UNCHANGED <<system_instructions, input, model_settings, tools,
                   messages, body, result, output, ret>>
    /\ UNCHANGED <<concurrentVars, migrationVars, ingestVars>>

(* lines 117-122: invoke_model raises *)
InvokeModelRaises ==
    /\ pc = "invoke"
    /\ invoke_calls' = invoke_calls + 1
    /\ pc' = "error"
    /\ err' = "ClientError"
    /\ UNCHANGED <<system_instructions, input, model_settings, tools,
                   messages, body, result, output, ret>>
    /\ UNCHANGED <<concurrentVars, migrationVars, ingestVars>>

(* line 125 read with defaults: result.get('choices') or [{}], .get('message', {}) *)
MessageOrDefault(res) ==
    IF MessageLookupError(res) = "" THEN MessageOf(res)
    ELSE WireMessage(Absent, NoToolCalls)

(* lines 125-159 with the lookups of line 125 defaulted instead of raising *)
Decode_DefaultsMissingMessage ==
    /\ pc = "decode"
    /\ IF OutputError(result, MessageOrDefault(result)) # ""
       THEN /\ pc' = "error"
            /\ err' = OutputError(result, MessageOrDefault(result))
            /\ UNCHANGED output
       ELSE /\ pc' = "return"
            /\ output' = DecodeOutput(result, MessageOrDefault(result))
            /\ UNCHANGED err
    /\ UNCHANGED <<system_instructions, input, model_settings, tools,
                   messages, body, result, ret, invoke_calls>>
    /\ UNCHANGED <<concurrentVars, migrationVars, ingestVars>>

(* lines 125-159 *)
Decode ==
    /\ pc = "decode"
    /\ IF DecodeError(result) # ""
       THEN /\ pc' = "error"
            /\ err' = DecodeError(result)
            /\ UNCHANGED output
       ELSE /\ pc' = "return"
            /\ output' = DecodeOutput(result, MessageOf(result))
            /\ UNCHANGED err
    /\ UNCHANGED <<system_instructions, input, model_settings, tools,
                   messages, body, result, ret, invoke_calls>>
    /\ UNCHANGED <<concurrentVars, migrationVars, ingestVars>>

(* lines 161-171 *)
Return ==
    /\ pc = "return"
    /\ IF UsageError(result) # ""
       THEN /\ pc' = "error"
            /\ err' = UsageError(result)
            /\ UNCHANGED ret
       ELSE /\ pc' = "done"
            /\ ret' = ModelResponse(output, result)
            /\ UNCHANGED err
    /\ UNCHANGED <<system_instructions, input, model_settings, tools,
                   messages, body, result, output, invoke_calls>>
    /\ UNCHANGED <<concurrentVars, migrationVars, ingestVars>>

(* the call is over: its arguments and locals are gone *)
Discard ==
    /\ pc \in {"done", "error"}
    /\ pc' = "idle"
    /\ system_instructions' = None
    /\ input' = InputList(<<>>)
    /\ model_settings' = NoSettings
    /\ tools' = NoTools
    /\ messages' = <<>>
    /\ body' = NoBody
    /\ result' = NoResult
    /\ output' = <<>>
    /\ ret' = NoResponse
    /\ err' = ""
    /\ invoke_calls' = 0
    /\ UNCHANGED <<concurrentVars, migrationVars, ingestVars>>

Next ==
    \/ Call
    \/ Normalize
    \/ BuildRequest
    \/ InvokeModel
    \/ InvokeModelRaises
    \/ Decode
    \/ Return
    \/ Discard

Spec == Init /\ [][Next]_vars

-----------------------------------------------------------------------------
(* Positions of the call.                                                  *)

Normalized == pc \notin {"idle", "normalize"}
RequestBuilt == pc \notin {"idle", "normalize", "build"}
Returned == pc = "done"

(* the wire response has choices[0].message *)
HasFirstMessage(res) ==
    /\ res.choices_t = "list"
    /\ res.choices # <<>>
    /\ res.choices[1].has_message

(* the wire message has no non-empty text: content absent, null or "" *)
NoText(m) == m.content \in {Absent, None, StrV("")}
(* the wire message has no tool calls: absent, null or the empty list *)
NoCalls(m) == m.tool_calls.t \in {"absent", "null"} \/ m.tool_calls.list = <<>>

IsEmptyTextMessage(item) == item.type = "message" /\ item.text = ""

-----------------------------------------------------------------------------
(* C1: for every wire response that has choices[0].message, the output     *)
(* list get_response returns is never empty; when the message has neither  *)
(* non-empty text nor tool calls (absent, null, empty list, empty string)  *)
(* the output is exactly one text message whose text is "".                *)
C1_OutputNeverEmpty ==
    (Returned /\ HasFirstMessage(result)) =>
        /\ ret.output # <<>>
        /\ (NoText(result.choices[1].message) /\ NoCalls(result.choices[1].message)) =>
               /\ Len(ret.output) = 1
               /\ IsEmptyTextMessage(ret.output[1])

C1_Witness ==
    /\ Returned
    /\ HasFirstMessage(result)
    /\ result.choices[1].message.content = None
    /\ result.choices[1].message.tool_calls = ToolCallList(<<>>)
    /\ Len(ret.output) = 1
    /\ IsEmptyTextMessage(ret.output[1])

-----------------------------------------------------------------------------
(* The turn shapes the normalizer is specified for.                        *)

IsRoleContentRecord(item) == item.shape = "dict" /\ {"role", "content"} \subseteq item.fields
IsAccessorObject(item) == item.shape = "obj" /\ {"role", "content"} \subseteq item.fields
IsToolOutput(item) ==
    /\ item.shape \in {"dict", "obj"}
    /\ {"type", "call_id", "output"} \subseteq item.fields
    /\ item.type = "function_call_output"
IsBareText(item) == item.shape = "str"
IsRecognized(item) ==
    IsRoleContentRecord(item) \/ IsAccessorObject(item) \/ IsToolOutput(item) \/ IsBareText(item)

InputIsList == input.t = "list"
AllRecognized == \A i \in 1..Len(input.items) : IsRecognized(input.items[i])

(* number of messages in front of those of the input: the system message *)
Offset == IF system_instructions.t = "str" /\ system_instructions.s # "" THEN 1 ELSE 0

-----------------------------------------------------------------------------
(* C2: an input element that matches none of the recognized turn shapes    *)
(* makes get_response raise a normalization error; it is never silently    *)
(* dropped from the message list.                                          *)
C2_UnrecognizedRaises ==
    (Normalized /\ InputIsList /\ ~AllRecognized) =>
        (pc = "error" /\ err = "NormalizationError")

-----------------------------------------------------------------------------
(* The text a content value stands for: a list of parts is its parts' text *)
(* joined by single spaces, anything else its string form.                 *)

RECURSIVE PartsText(_)
PartsText(parts) ==
    IF parts = <<>> THEN ""
    ELSE LET rest == PartsText(Tail(parts))
             p == Head(parts)
         IN  IF p.k \notin {"text", "str"} THEN rest
             ELSE IF \A i \in 2..Len(parts) : parts[i].k \notin {"text", "str"}
                  THEN p.text
                  ELSE p.text \o " " \o rest

ContentText(v) ==
    CASE v.t = "list" -> PartsText(v.parts)
      [] v.t = "none" -> "None"
      [] OTHER -> v.s

ElementRole(item) ==
    IF IsRoleContentRecord(item) \/ IsAccessorObject(item) THEN item.role
    ELSE IF IsToolOutput(item) THEN "tool"
    ELSE "user"

ElementText(item) ==
    IF IsRoleContentRecord(item) \/ IsAccessorObject(item) THEN ContentText(item.content)
    ELSE IF IsToolOutput(item) THEN ContentText(item.output)
    ELSE item.text

(* C3: for an input list of length N whose elements are any mix of the     *)
(* supported encodings, the normalizer emits exactly N messages (after the *)
(* system message), and the i-th has the role and the content of the i-th  *)
(* input element.                                                          *)
C3_OneMessagePerElement ==
    (Normalized /\ InputIsList /\ AllRecognized) =>
        /\ Len(messages) = Offset + Len(input.items)
        /\ \A i \in 1..Len(input.items) :
              /\ messages[Offset + i].role = ElementRole(input.items[i])
              /\ messages[Offset + i].content = ElementText(input.items[i])

-----------------------------------------------------------------------------
(* The wire tool calls of the first message, as a list.                    *)
WireCalls(m) == IF m.tool_calls.t = "list" THEN m.tool_calls.list ELSE <<>>

CarriesCall(item, tc) ==
    /\ item.type = "function_call"
    /\ item.id = tc.id
    /\ item.call_id = tc.id
    /\ item.name = tc.name
    /\ item.arguments = tc.arguments

(* the output starts with one tool-call item per wire tool call, in order *)
CallsFirst(out, m) ==
    /\ Len(out) >= Len(WireCalls(m))
    /\ \A i \in 1..Len(WireCalls(m)) : CarriesCall(out[i], WireCalls(m)[i])

(* C4 as stated: the output is the tool-call items followed by exactly one *)
(* text message iff message.content is non-empty.                          *)
C4_CallsThenTextIffContent ==
    (Returned /\ HasFirstMessage(result)) =>
        LET m == result.choices[1].message
            n == Len(WireCalls(m))
        IN  /\ CallsFirst(ret.output, m)
            /\ IF NoText(m)
               THEN Len(ret.output) = n
               ELSE /\ Len(ret.output) = n + 1
                    /\ ret.output[n + 1].type = "message"
                    /\ ret.output[n + 1].text = m.content.s

(* C4 amended: as above, except that a message with no tool calls and no   *)
(* non-empty content yields the single synthesized empty text message.     *)
C4_CallsThenText ==
    (Returned /\ HasFirstMessage(result)) =>
        LET m == result.choices[1].message
            n == Len(WireCalls(m))
        IN  /\ CallsFirst(ret.output, m)
            /\ IF NoText(m) /\ n > 0
               THEN Len(ret.output) = n
               ELSE /\ Len(ret.output) = n + 1
                    /\ ret.output[n + 1].type = "message"
                    /\ ret.output[n + 1].text = (IF NoText(m) THEN "" ELSE m.content.s)

C4_Witness ==
    /\ Returned
    /\ HasFirstMessage(result)
    /\ Len(WireCalls(result.choices[1].message)) = 2
    /\ result.choices[1].message.content = StrV("hello")
    /\ Len(ret.output) = 3
    /\ ret.output[1].id # ret.output[2].id
    /\ ret.output[3].text = "hello"

-----------------------------------------------------------------------------
(* C5: the request's tools array holds exactly the offered tools named     *)
(* ingest_financial_document, in their offered order; when there is none   *)
(* (or no tools are offered) the request has no "tools" key.               *)
C5_ToolsFiltered ==
    RequestBuilt =>
        LET allowed == SelectSeq(tools.list,
                                 LAMBDA t : t.name = "ingest_financial_document")
        IN  IF tools.given /\ allowed # <<>>
            THEN /\ body.has_tools
                 /\ Len(body.tools) = Len(allowed)
                 /\ \A i \in 1..Len(allowed) :
                       /\ body.tools[i].type = "function"
                       /\ body.tools[i].function.name = allowed[i].name
                       /\ body.tools[i].function.description = allowed[i].description
                       /\ body.tools[i].function.parameters = allowed[i].params_json_schema
            ELSE /\ ~body.has_tools
                 /\ body.tools = <<>>

C5_Witness ==
    /\ RequestBuilt
    /\ tools.given
    /\ Len(tools.list) = 2
    /\ tools.list[1].name = "browser_navigate"
    /\ tools.list[2].name = "ingest_financial_document"
    /\ body.has_tools
    /\ Len(body.tools) = 1

-----------------------------------------------------------------------------
(* C6: the request's max_tokens is the settings' max-token value when      *)
(* settings are given and that field is set, and 4096 in every other case  *)
(* (settings absent, field missing, field null); it is never null.         *)
C6_MaxTokensDefaulted ==
    RequestBuilt =>
        /\ body.max_tokens.t = "int"
        /\ body.max_tokens.n =
              (IF /\ model_settings.given
                  /\ model_settings.has_max_tokens
                  /\ model_settings.max_tokens.t = "int"
               THEN model_settings.max_tokens.n
               ELSE 4096)

-----------------------------------------------------------------------------
(* C7: every wire request has at most one message with role "system", and  *)
(* if there is one it is the first message.                                *)
C7_OneLeadingSystemMessage ==
    Normalized =>
        \A i \in 1..Len(messages) : messages[i].role = "system" => i = 1

-----------------------------------------------------------------------------
(* C8: a key/value record and an accessor-style object that carry the same *)
(* role and the same content normalize to the same wire message; when the  *)
(* content is a list of parts, both yield the parts' text joined by single *)
(* spaces.                                                                 *)
HasRoleAndContent(item) == IsRoleContentRecord(item) \/ IsAccessorObject(item)

C8_RecordAndObjectAgree ==
    (Normalized /\ InputIsList
        /\ \A i \in 1..Len(input.items) : HasRoleAndContent(input.items[i])) =>
        /\ Len(messages) = Offset + Len(input.items)
        /\ \A i, j \in 1..Len(input.items) :
              (/\ IsRoleContentRecord(input.items[i])
               /\ IsAccessorObject(input.items[j])
               /\ input.items[i].role = input.items[j].role
               /\ input.items[i].content = input.items[j].content) =>
                  /\ messages[Offset + i] = messages[Offset + j]
                  /\ input.items[i].content.t = "list" =>
                        messages[Offset + i].content = PartsText(input.items[i].content.parts)

-----------------------------------------------------------------------------
(* C9: every input element tagged as a tool output (type                   *)
(* function_call_output, carrying an output and a call id), record or      *)
(* object, whatever other fields it carries, becomes a message with role   *)
(* "tool", the stringified output as content and the call id as            *)
(* tool_call_id.                                                           *)
C9_ToolOutputBecomesToolMessage ==
    (Normalized /\ InputIsList /\ AllRecognized) =>
        /\ Len(messages) = Offset + Len(input.items)
        /\ \A i \in 1..Len(input.items) :
              IsToolOutput(input.items[i]) =>
                  /\ messages[Offset + i].role = "tool"
                  /\ messages[Offset + i].content = ContentText(input.items[i].output)
                  /\ messages[Offset + i].has_tool_call_id
                  /\ messages[Offset + i].tool_call_id = input.items[i].call_id

-----------------------------------------------------------------------------
(* C10: a wire response without the top-level structure (no "choices" key, *)
(* an empty choices list, a first choice without "message") makes          *)
(* get_response end with an error: nothing is returned, in particular not  *)
(* the synthesized empty text message.                                     *)
LacksStructure(res) ==
    \/ res.choices_t = "absent"
    \/ res.choices_t = "list" /\ res.choices = <<>>
    \/ res.choices_t = "list" /\ res.choices # <<>> /\ ~res.choices[1].has_message

Decoded == pc \notin {"idle", "normalize", "build", "invoke", "decode"}

C10_MalformedResponseRaises ==
    (Decoded /\ LacksStructure(result)) =>
        /\ pc = "error"
        /\ output = <<>>
        /\ ret = NoResponse

C10_Witness ==
    /\ pc = "error"
    /\ err = "IndexError"
    /\ result.choices_t = "list"
    /\ result.choices = <<>>
    /\ output = <<>>

-----------------------------------------------------------------------------
(* C11: each usage counter (input, output, total tokens) equals the wire   *)
(* counter (prompt_tokens, completion_tokens, total_tokens) when that      *)
(* counter is present and 0 when it is missing, independently of the other *)
(* two; a response with no usage object yields (0, 0, 0) and no error.     *)
WireCounterOr0(res, name, value) ==
    IF res.usage.t = "dict" /\ name \in res.usage.has THEN value ELSE 0

C11_UsageCountersDefaulted ==
    /\ Returned =>
          /\ ret.usage.input_tokens =
                WireCounterOr0(result, "prompt_tokens", result.usage.prompt_tokens)
          /\ ret.usage.output_tokens =
                WireCounterOr0(result, "completion_tokens", result.usage.completion_tokens)
          /\ ret.usage.total_tokens =
                WireCounterOr0(result, "total_tokens", result.usage.total_tokens)
    /\ (pc = "return" /\ result.usage.t = "absent") => UsageError(result) = ""
    /\ (pc = "error" /\ result.usage.t \in {"absent", "dict"}) => err # "AttributeError"

C11_Witness ==
    /\ Returned
    /\ result.usage.t = "dict"
    /\ result.usage.has = {"completion_tokens"}
    /\ ret.usage = [input_tokens |-> 0, output_tokens |-> 5, total_tokens |-> 0]

-----------------------------------------------------------------------------
(* C12: every call that reaches the network step calls invoke_model        *)
(* exactly once, whether it returns or raises; when it raises, the call    *)
(* ends with that error, with no second invoke and no result returned.     *)
C12_OneInvokePerCall ==
    /\ invoke_calls <= 1
    /\ pc \in {"idle", "normalize", "build", "invoke"} => invoke_calls = 0
    /\ pc \in {"decode", "return", "done", "error"} => invoke_calls = 1
    /\ (pc = "error" /\ err = "ClientError") =>
          /\ result = NoResult
          /\ output = <<>>
          /\ ret = NoResponse

C12_Witness ==
    /\ pc = "error"
    /\ err = "ClientError"
    /\ invoke_calls = 1
    /\ ret = NoResponse

-----------------------------------------------------------------------------
ToolCallItemsOf(out) == { i \in 1..Len(out) : out[i].type = "function_call" }

DistinctIds(out) ==
    \A i, j \in ToolCallItemsOf(out) : i # j => out[i].id # out[j].id

(* C14 as stated: within the output of one call, every tool-call item has  *)
(* an id distinct from that of every other tool-call item.                 *)
C14_ToolCallIdsDistinct ==
    Returned => DistinctIds(ret.output)

(* C14 amended: the tool-call items carry the wire ids, so they are        *)
(* pairwise distinct whenever the wire tool_calls' ids are.                *)
C14_ToolCallIdsAsOnWire ==
    (Returned /\ HasFirstMessage(result)) =>
        LET wire == WireCalls(result.choices[1].message)
        IN  (\A i, j \in 1..Len(wire) : i # j => wire[i].id # wire[j].id) =>
                /\ Cardinality(ToolCallItemsOf(ret.output)) = Len(wire)
                /\ DistinctIds(ret.output)

C14_Witness ==
    /\ Returned
    /\ HasFirstMessage(result)
    /\ Len(WireCalls(result.choices[1].message)) = 2
    /\ Cardinality(ToolCallItemsOf(ret.output)) = 2
    /\ ret.output[1].id = "c1"
    /\ ret.output[2].id = "c2"

-----------------------------------------------------------------------------
(* SpecConcurrent: the adapter is constructed (lines 27-29), then          *)
(* get_response (lines 31-171) and stream_response (lines 173-175) run     *)
(* concurrently on it, each call with its own arguments and locals.        *)

(* the (model_id, region) arguments explored; Absent is an argument not passed *)
ConstructorArgs ==
    { <<Absent, StrV("us-west-2")>>,
      <<None, StrV("us-west-2")>>,
      <<StrV("openai.gpt-oss-120b-1:0"), Absent>>,
      <<StrV("openai.gpt-oss-120b-1:0"), None>>,
      <<StrV("openai.gpt-oss-120b-1:0"), StrV("us-west-2")>> }

(* line 27: region: str = "us-east-1" *)
DefaultRegion == "us-east-1"

(* line 29: boto3.client('bedrock-runtime', region_name=region); a region  *)
(* of None is looked up in the process environment.                        *)
Client(reg) ==
    [service |-> "bedrock-runtime",
     region |-> CASE reg.t = "absent" -> DefaultRegion
                  [] reg.t = "none" -> "from environment"
                  [] OTHER -> reg.s]

(* lines 27-29 *)
Construct ==
    /\ adapter.state = "none"
    /\ \E a \in ConstructorArgs :
          /\ a[1] # Absent
          /\ adapter' = [state |-> "constructed", model_id |-> a[1],
                         client |-> Client(a[2]), err |-> ""]
    /\ UNCHANGED <<calls, callVars, migrationVars, ingestVars>>

(* lines 27-29: the constructor raises, for a missing positional model_id  *)
(* (TypeError) or when region None finds no region in the environment.     *)
ConstructRaises ==
    /\ adapter.state = "none"
    /\ \E a \in ConstructorArgs :
          \/ /\ a[1] = Absent
             /\ adapter' = [NoAdapter EXCEPT !.state = "failed", !.err = "TypeError"]
          \/ /\ a[1] # Absent
             /\ a[2] = None
             /\ adapter' = [NoAdapter EXCEPT !.state = "failed", !.err = "NoRegionError"]
    /\ UNCHANGED <<calls, callVars, migrationVars, ingestVars>>

(* the argument tuples and replies explored for concurrent calls *)
ConcurrentArgs ==
    { <<None, ReferenceInput, NoSettings, NoTools>>,
      <<StrV("You are a researcher"), InputList(<<Rec("user", StrV("hi"))>>),
        Settings(TRUE, JInt(256)),
        ToolList(<<FunctionTool("ingest_financial_document", "store")>>)>> }
ConcurrentReplies ==
    { Reply(WireMessage(StrV("hello"), NoToolCalls), StrV("r1"), UsageDict(CounterNames)),
      Reply(WireMessage(Absent, ToolCallList(<<
                ToolCall({"id", "function"}, "c1", "ingest_financial_document", "{\"x\":1}")>>)),
            StrV("r2"), UsageDict({"total_tokens"})) }

(* lines 31-43: get_response is called with arguments a *)
GetResponse(c) ==
    /\ adapter.state = "constructed"
    /\ calls[c].pc = "idle"
    /\ \E a \in ConcurrentArgs :
          calls' = [calls EXCEPT ![c].pc = "normalize", ![c].entry = "get_response",
                                 ![c].given = a, ![c].args = a]
    /\ UNCHANGED <<adapter, callVars, migrationVars, ingestVars>>

(* line 175 with the tools argument not passed on *)
ForwardedArgs_DropsTools(a) == <<a[1], a[2], a[3], NoTools>>

(* line 175: every positional and keyword argument is passed on *)
ForwardedArgs(a) == a

(* lines 173-175: stream_response is called with arguments a *)
StreamResponse(c) ==
    /\ adapter.state = "constructed"
    /\ calls[c].pc = "idle"
    /\ \E a \in ConcurrentArgs :
          calls' = [calls EXCEPT ![c].pc = "normalize", ![c].entry = "stream_response",
                                 ![c].given = a, ![c].args = ForwardedArgs(a)]
    /\ UNCHANGED <<adapter, callVars, migrationVars, ingestVars>>

(* lines 44-86 with the list kept on the instance: the messages another   *)
(* call left there are still in it                                         *)
NormalizeOf_OnInstance(c) ==
    /\ calls[c].pc = "normalize"
    /\ \E d \in CallIds :
          calls' = [calls EXCEPT
                      ![c].messages =
                          (IF d # c THEN calls[d].messages ELSE <<>>)
                              \o BuildMessages(calls[c].args[1], calls[c].args[2]),
                      ![c].pc = "build"]
    /\ UNCHANGED <<adapter, callVars, migrationVars, ingestVars>>

(* lines 44-86 *)
NormalizeOf(c) ==
    /\ calls[c].pc = "normalize"
    /\ calls' = [calls EXCEPT
                   ![c].messages = BuildMessages(calls[c].args[1], calls[c].args[2]),
                   ![c].pc = "build"]
    /\ UNCHANGED <<adapter, callVars, migrationVars, ingestVars>>

(* lines 88-115 *)
BuildRequestOf(c) ==
    /\ calls[c].pc = "build"
    /\ calls' = [calls EXCEPT
                   ![c].body = BuildBody(calls[c].messages, calls[c].args[3], calls[c].args[4]),
                   ![c].pc = "invoke"]
    /\ UNCHANGED <<adapter, callVars, migrationVars, ingestVars>>

(* lines 117-122: what is passed to self.client.invoke_model *)
Request(c) == [sent |-> TRUE, modelId |-> adapter.model_id, body |-> calls[c].body]

(* lines 117-124: invoke_model returns *)
InvokeModelOf(c) ==
    /\ calls[c].pc = "invoke"
    /\ \E r \in ConcurrentReplies :
          calls' = [calls EXCEPT ![c].request = Request(c), ![c].result = r,
                                 ![c].invoke_calls = @ + 1, ![c].pc = "decode"]
    /\ UNCHANGED <<adapter, callVars, migrationVars, ingestVars>>

(* lines 117-122: invoke_model raises *)
InvokeModelRaisesOf(c) ==
    /\ calls[c].pc = "invoke"
    /\ calls' = [calls EXCEPT ![c].request = Request(c), ![c].invoke_calls = @ + 1,
                              ![c].pc = "error", ![c].err = "ClientError"]
    /\ UNCHANGED <<adapter, callVars, migrationVars, ingestVars>>

(* lines 125-171: the response is decoded and returned, or an exception ends the call *)
CompleteOf(c) ==
    /\ calls[c].pc = "decode"
    /\ calls' =
          IF DecodeError(calls[c].result) # ""
          THEN [calls EXCEPT ![c].pc = "error", ![c].err = DecodeError(calls[c].result)]
          ELSE LET out == DecodeOutput(calls[c].result, MessageOf(calls[c].result))
               IN  IF UsageError(calls[c].result) # ""
                   THEN [calls EXCEPT ![c].pc = "error", ![c].output = out,
                                      ![c].err = UsageError(calls[c].result)]
                   ELSE [calls EXCEPT ![c].pc = "done", ![c].output = out,
                                      ![c].ret = ModelResponse(out, calls[c].result)]
    /\ UNCHANGED <<adapter, callVars, migrationVars, ingestVars>>

NextConcurrent ==
    \/ Construct
    \/ ConstructRaises
    \/ \E c \in CallIds : GetResponse(c)
    \/ \E c \in CallIds : StreamResponse(c)
    \/ \E c \in CallIds : NormalizeOf(c)
    \/ \E c \in CallIds : BuildRequestOf(c)
    \/ \E c \in CallIds : InvokeModelOf(c)
    \/ \E c \in CallIds : InvokeModelRaisesOf(c)
    \/ \E c \in CallIds : CompleteOf(c)

SpecConcurrent == Init /\ [][NextConcurrent]_vars

-----------------------------------------------------------------------------
NormalizedOf(c) == calls[c].pc \notin {"idle", "normalize"}
RequestBuiltOf(c) == calls[c].pc \notin {"idle", "normalize", "build"}
RequestSentOf(c) == calls[c].pc \notin {"idle", "normalize", "build", "invoke"}
ReturnedOf(c) == calls[c].pc = "done"

(* what a call alone produces from its own arguments and wire response *)
OwnMessages(c) == BuildMessages(calls[c].args[1], calls[c].args[2])
OwnBody(c) == BuildBody(OwnMessages(c), calls[c].args[3], calls[c].args[4])
OwnResponse(c) ==
    ModelResponse(DecodeOutput(calls[c].result, MessageOf(calls[c].result)), calls[c].result)

CallsIndependent ==
    \A c \in CallIds :
        /\ NormalizedOf(c) => calls[c].messages = OwnMessages(c)
        /\ RequestBuiltOf(c) => calls[c].body = OwnBody(c)
        /\ RequestSentOf(c) =>
              /\ calls[c].request.body = OwnBody(c)
              /\ calls[c].request.modelId = adapter.model_id
        /\ ReturnedOf(c) => calls[c].ret = OwnResponse(c)

AdapterUntouched ==
    adapter.state = "constructed" => adapter' = adapter

(* C13: concurrent calls on one adapter do not interfere: under any        *)
(* interleaving the request sent and the result returned by each call      *)
(* depend only on that call's own arguments and wire response, and the     *)
(* adapter's fields (model id, client) are unchanged by any call.          *)
C13_ConcurrentCallsIndependent ==
    [][AdapterUntouched /\ CallsIndependent']_vars

(* two calls with different arguments have both returned, each its own *)
C13_Witness ==
    /\ ReturnedOf(1)
    /\ ReturnedOf(2)
    /\ calls[1].args # calls[2].args
    /\ calls[1].result # calls[2].result
    /\ calls[1].request.body # calls[2].request.body
    /\ calls[1].ret # calls[2].ret

-----------------------------------------------------------------------------
(* a model identifier and a region were given to the constructor *)
ConfigComplete ==
    /\ adapter.model_id.t = "str"
    /\ adapter.model_id.s # ""
    /\ adapter.client.region \notin {DefaultRegion, "from environment"}

(* C15: constructing the adapter without a model identifier or without a   *)
(* region fails at construction, so no get_response call and no network    *)
(* call ever happens on a mis-configured adapter.                          *)
C15_MisconfiguredNeverConstructed ==
    /\ adapter.state = "constructed" => ConfigComplete
    /\ \A c \in CallIds : calls[c].pc # "idle" => ConfigComplete

-----------------------------------------------------------------------------
(* C16: stream_response is a pure delegation to get_response: for the same *)
(* arguments and the same wire response it performs the same single        *)
(* endpoint call and returns the same complete result.                     *)
Ended(c) == calls[c].pc \in {"done", "error"}

C16_StreamDelegates ==
    \A c, d \in CallIds :
        (/\ calls[c].entry = "get_response"
         /\ calls[d].entry = "stream_response"
         /\ calls[c].given = calls[d].given) =>
            /\ (RequestSentOf(c) /\ RequestSentOf(d)) =>
                  /\ calls[d].request = calls[c].request
                  /\ calls[d].invoke_calls = 1
                  /\ calls[c].invoke_calls = 1
            /\ (Ended(c) /\ Ended(d) /\ calls[c].result = calls[d].result) =>
                  /\ calls[d].pc = calls[c].pc
                  /\ calls[d].ret = calls[c].ret
                  /\ calls[d].err = calls[c].err

C16_Witness ==
    /\ calls[1].entry = "get_response"
    /\ calls[2].entry = "stream_response"
    /\ calls[1].given = calls[2].given
    /\ calls[1].given[4] # NoTools
    /\ ReturnedOf(1)
    /\ ReturnedOf(2)
    /\ calls[1].result = calls[2].result
    /\ calls[2].ret = calls[1].ret
    /\ calls[2].request.body.has_tools

-----------------------------------------------------------------------------
(* SpecMigration: src/backend/database/run_pgvector_migration.py.          *)

(* lines 26-56: the statements, by their first line *)
statements ==
    << "CREATE EXTENSION IF NOT EXISTS vector",
       "CREATE TABLE IF NOT EXISTS documents (",
       "CREATE INDEX IF NOT EXISTS idx_documents_embedding",
       "CREATE INDEX IF NOT EXISTS idx_documents_metadata",
       "CREATE INDEX IF NOT EXISTS idx_documents_created_at",
       "CREATE TRIGGER update_documents_updated_at" >>

(* Error messages are sequences of characters, so that lower() and the     *)
(* substring test act on them.                                             *)
UpperCase == <<"A", "B", "C", "D", "E", "F", "G", "H", "I", "J", "K", "L", "M", "N", "O", "P", "Q", "R", "S", "T", "U", "V", "W", "X", "Y", "Z">>
LowerCase == <<"a", "b", "c", "d", "e", "f", "g", "h", "i", "j", "k", "l", "m", "n", "o", "p", "q", "r", "s", "t", "u", "v", "w", "x", "y", "z">>

(* str.lower(), one character *)
LowerChar(ch) ==
    IF \E i \in 1..Len(UpperCase) : UpperCase[i] = ch
    THEN LowerCase[CHOOSE i \in 1..Len(UpperCase) : UpperCase[i] = ch]
    ELSE ch

(* str.lower() *)
Lower(msg) == [i \in 1..Len(msg) |-> LowerChar(msg[i])]

(* needle in hay *)
Contains(needle, hay) ==
    \E i \in 0..(Len(hay) - Len(needle)) : SubSeq(hay, i + 1, i + Len(needle)) = needle

MsgTriggerExists == <<"E", "R", "R", "O", "R", ":", " ", "t", "r", "i", "g", "g", "e", "r", " ", "a", "l", "r", "e", "a", "d", "y", " ", "e", "x", "i", "s", "t", "s">>
MsgRelationExists == <<"R", "e", "l", "a", "t", "i", "o", "n", " ", "A", "l", "r", "e", "a", "d", "y", " ", "E", "x", "i", "s", "t", "s">>
MsgDenied == <<"p", "e", "r", "m", "i", "s", "s", "i", "o", "n", " ", "d", "e", "n", "i", "e", "d", ":", " ", "e", "x", "i", "s", "t", "s", " ", "a", "l", "r", "e", "a", "d", "y">>
(* the Error.Message values of the ClientErrors explored *)
ErrorMessages == {MsgTriggerExists, MsgRelationExists, MsgDenied}

(* line 89 without .lower() *)
IsAlreadyExists_CaseSensitive(error_msg) ==
    Contains(<<"a", "l", "r", "e", "a", "d", "y", " ", "e", "x", "i", "s", "t", "s">>, error_msg)

(* line 89: "already exists" in error_msg.lower() *)
IsAlreadyExists(error_msg) ==
    Contains(<<"a", "l", "r", "e", "a", "d", "y", " ", "e", "x", "i", "s", "t", "s">>, Lower(error_msg))

(* line 64: the statement the loop is at *)
InLoop == migration_pc = "loop" /\ Len(executed) < Len(statements)

(* lines 80-85: execute_statement returns *)
ExecuteSucceeds ==
    /\ InLoop
    /\ executed' = Append(executed, [stmt |-> statements[Len(executed) + 1], outcome |-> "ok", message |-> <<>>])
    /\ success_count' = success_count + 1
    /\ UNCHANGED <<migration_pc, error_count>>
    /\ UNCHANGED <<callVars, concurrentVars, ingestVars>>

(* lines 80-83, 87-94: execute_statement raises ClientError *)
ExecuteRaisesClientError ==
    /\ InLoop
    /\ \E msg \in ErrorMessages :
          /\ executed' = Append(executed, [stmt |-> statements[Len(executed) + 1], outcome |-> "ClientError",
                                         message |-> msg])
          /\ IF IsAlreadyExists(msg)
             THEN success_count' = success_count + 1 /\ UNCHANGED error_count
             ELSE error_count' = error_count + 1 /\ UNCHANGED success_count
    /\ UNCHANGED migration_pc
    /\ UNCHANGED <<callVars, concurrentVars, ingestVars>>

(* lines 80-83: execute_statement raises something that is no ClientError; *)
(* nothing catches it and the script ends                                  *)
ExecuteRaisesOther ==
    /\ InLoop
    /\ executed' = Append(executed, [stmt |-> statements[Len(executed) + 1], outcome |-> "exception",
                                   message |-> <<>>])
    /\ migration_pc' = "crashed"
    /\ UNCHANGED <<success_count, error_count>>
    /\ UNCHANGED <<callVars, concurrentVars, ingestVars>>

(* lines 96-106: the loop is over, the summary is printed *)
Summarize ==
    /\ migration_pc = "loop"
    /\ Len(executed) = Len(statements)
    /\ migration_pc' = "done"
    /\ UNCHANGED <<success_count, error_count, executed>>
    /\ UNCHANGED <<callVars, concurrentVars, ingestVars>>

NextMigration ==
    \/ ExecuteSucceeds
    \/ ExecuteRaisesClientError
    \/ ExecuteRaisesOther
    \/ Summarize

SpecMigration == Init /\ [][NextMigration]_vars

-----------------------------------------------------------------------------
(* the messages that contain "already exists" in some letter case *)
SaysAlreadyExists(msg) == msg \in {MsgTriggerExists, MsgRelationExists}

CountsAsSuccess(e) ==
    e.outcome = "ok" \/ (e.outcome = "ClientError" /\ SaysAlreadyExists(e.message))

NoOtherException == \A k \in 1..Len(executed) : executed[k].outcome \in {"ok", "ClientError"}

(* C17: after the k-th statement success_count + error_count = k, provided *)
(* each statement succeeds or raises ClientError; a ClientError whose      *)
(* message contains "already exists" in any letter case counts as a        *)
(* success, so a run against a migrated database ends with error_count 0;  *)
(* statements run in list order and a failure never stops the later ones.  *)
C17_MigrationCounts ==
    /\ \A k \in 1..Len(executed) : executed[k].stmt = statements[k]
    /\ NoOtherException =>
          /\ success_count + error_count = Len(executed)
          /\ success_count = Cardinality({k \in 1..Len(executed) : CountsAsSuccess(executed[k])})
          /\ migration_pc = "done" => Len(executed) = Len(statements)
          /\ Len(executed) < Len(statements) => migration_pc = "loop"
    /\ (migration_pc = "done" /\ \A k \in 1..Len(executed) : CountsAsSuccess(executed[k])) =>
          error_count = 0

C17_Witness ==
    /\ migration_pc = "done"
    /\ error_count = 0
    /\ success_count = Len(statements)
    /\ executed[Len(statements)].outcome = "ClientError"
    /\ executed[Len(statements)].message = MsgTriggerExists
    /\ executed[2].message = MsgRelationExists

-----------------------------------------------------------------------------
(* SpecIngest: src/backend/ingest/ingest_pgvector.py.                      *)

(* an exception raised inside the try block, by class name *)
Raised(exc) == [t |-> "raised", exc |-> exc]

(* a metadata dict, by its keys *)
MetaV(keys) == [t |-> "dict", keys |-> keys]

(* a dict with optional text and metadata entries *)
Mapping(text, metadata) == [t |-> "dict", text |-> text, metadata |-> metadata]

(* the event dict: its body entry, and the text and metadata entries that  *)
(* are read when it has no body entry (line 60)                            *)
EventDict(b, text, metadata) ==
    [t |-> "dict", body |-> b, text |-> text, metadata |-> metadata]

TextValues == {Absent, None, StrV(""), StrV("doc"), IntV("5")}
MetadataValues == {Absent, None, MetaV({"source"})}

(* the str bodies explored *)
JsonBodies ==
    { "{\"text\": \"doc\"}",
      "{\"text\": \"doc\", \"metadata\": {\"source\": \"10-K\"}}",
      "{\"text\": \"doc\", \"metadata\": null}",
      "{\"text\": \"\"}",
      "{\"text\": null}",
      "{\"metadata\": {\"source\": \"10-K\"}}",
      "{}",
      "{\"text\": 5}",
      "[]",
      "null",
      "\"doc\"",
      "{text: doc",
      "" }

(* line 58: json.loads on the str bodies explored *)
json_loads(str) ==
    CASE str = "{\"text\": \"doc\"}" -> Mapping(StrV("doc"), Absent)
      [] str = "{\"text\": \"doc\", \"metadata\": {\"source\": \"10-K\"}}" ->
            Mapping(StrV("doc"), MetaV({"source"}))
      [] str = "{\"text\": \"doc\", \"metadata\": null}" -> Mapping(StrV("doc"), None)
      [] str = "{\"text\": \"\"}" -> Mapping(StrV(""), Absent)
      [] str = "{\"text\": null}" -> Mapping(None, Absent)
      [] str = "{\"metadata\": {\"source\": \"10-K\"}}" -> Mapping(Absent, MetaV({"source"}))
      [] str = "{}" -> Mapping(Absent, Absent)
      [] str = "{\"text\": 5}" -> Mapping(IntV("5"), Absent)
      [] str = "[]" -> ListV(<<>>)
      [] str = "null" -> None
      [] str = "\"doc\"" -> StrV("doc")
      [] OTHER -> Raised("JSONDecodeError")

(* the events the handler is invoked with *)
Events ==
    {[t |-> "list"]}
      \cup {EventDict(Absent, text, md) : text \in TextValues, md \in MetadataValues}
      \cup {EventDict(None, Absent, Absent)}
      \cup {EventDict(Mapping(text, md), Absent, Absent) :
                text \in TextValues, md \in MetadataValues}
      \cup {EventDict(StrV(str), Absent, Absent) : str \in JsonBodies}

(* lines 57-60: the body, or the exception raised while getting it *)
ParsedBody(ev) ==
    IF ev.t # "dict" THEN Raised("AttributeError")
    ELSE IF ev.body.t = "str" THEN json_loads(ev.body.s)
    ELSE IF ev.body = Absent THEN ev
    ELSE ev.body

(* line 62: body.get('text') *)
TextOf(b) == IF b.text = Absent THEN None ELSE b.text

(* line 63: body.get('metadata', {}) *)
MetadataOf(b) == IF b.metadata = Absent THEN MetaV({}) ELSE b.metadata

(* line 65 with a test for None in place of truthiness *)
NotText_MissingOnly(text) == text = None

(* line 65: not text *)
NotText(text) == ~Truthy(text)

(* JSON values the embedding endpoint answers with: a number, a list, and *)
(* a dict by its keys                                                     *)
Num(str) == [t |-> "num", s |-> str, items |-> <<>>]
Lst(items) == [t |-> "list", s |-> "", items |-> items]

Vector == Lst(<<Num("0.1"), Num("0.2")>>)
EndpointResults ==
    { Lst(<<Lst(<<Vector>>)>>), Lst(<<Vector>>), Vector, Lst(<<>>),
      Num("0.5"), [t |-> "dict", s |-> "", items |-> <<Num("error")>>],
      Raised("JSONDecodeError") }

(* lines 34-39: the embedding inside the nesting *)
Unwrap(res) ==
    IF res.t = "list" /\ Len(res.items) > 0
    THEN IF res.items[1].t = "list" /\ Len(res.items[1].items) > 0
         THEN IF res.items[1].items[1].t = "list"
              THEN res.items[1].items[1]
              ELSE res.items[1]
         ELSE res
    ELSE res

(* line 79 *)
EmbeddingStr(embedding) ==
    "[" \o JoinWith(",", [i \in 1..Len(embedding.items) |-> embedding.items[i].s]) \o "]"

HandlerResponse(code, error) == [statusCode |-> code, error |-> error]

InvokeEndpoint(text, outcome, res) ==
    [api |-> "invoke_endpoint", inputs |-> text, outcome |-> outcome, result |-> res]

(* line 42: the handler is invoked *)
LambdaHandler ==
    /\ handler_pc = "idle"
    /\ \E ev \in Events : event' = ev
    /\ handler_pc' = "parse"
    /\ UNCHANGED <<aws_calls, response>>
    /\ UNCHANGED <<callVars, concurrentVars, migrationVars>>

(* lines 57-63: the body is parsed, text and metadata are read *)
ParseBody ==
    /\ handler_pc = "parse"
    /\ LET b == ParsedBody(event) IN
          IF b.t = "raised"
          THEN response' = HandlerResponse(500, b.exc) /\ handler_pc' = "returned"
          ELSE IF b.t # "dict"
          THEN response' = HandlerResponse(500, "AttributeError") /\ handler_pc' = "returned"
          ELSE handler_pc' = "validate" /\ UNCHANGED response
    /\ UNCHANGED <<event, aws_calls>>
    /\ UNCHANGED <<callVars, concurrentVars, migrationVars>>

(* lines 65-72 *)
Validate ==
    /\ handler_pc = "validate"
    /\ LET text == TextOf(ParsedBody(event)) IN
          IF NotText(text)
          THEN /\ response' = HandlerResponse(400, "Missing required field: text")
               /\ handler_pc' = "returned"
          ELSE IF text.t \notin {"str", "list"}     \* line 72: text[:100]
          THEN response' = HandlerResponse(500, "TypeError") /\ handler_pc' = "returned"
          ELSE handler_pc' = "embed" /\ UNCHANGED response
    /\ UNCHANGED <<event, aws_calls>>
    /\ UNCHANGED <<callVars, concurrentVars, migrationVars>>

(* lines 73, 26-39: invoke_endpoint returns *)
GetEmbeddingReturns ==
    /\ handler_pc = "embed"
    /\ \E res \in EndpointResults :
          /\ aws_calls' = Append(aws_calls,
                 InvokeEndpoint(TextOf(ParsedBody(event)).s, "returned", res))
          /\ IF res.t = "raised"
             THEN response' = HandlerResponse(500, res.exc) /\ handler_pc' = "returned"
             ELSE handler_pc' = "format" /\ UNCHANGED response
    /\ UNCHANGED event
    /\ UNCHANGED <<callVars, concurrentVars, migrationVars>>

(* lines 73, 26-30: invoke_endpoint raises *)
GetEmbeddingRaises ==
    /\ handler_pc = "embed"
    /\ aws_calls' = Append(aws_calls,
           InvokeEndpoint(TextOf(ParsedBody(event)).s, "raised", Raised("ClientError")))
    /\ response' = HandlerResponse(500, "ClientError")
    /\ handler_pc' = "returned"
    /\ UNCHANGED event
    /\ UNCHANGED <<callVars, concurrentVars, migrationVars>>

(* the embedding get_embedding returned *)
Embedding == Unwrap(aws_calls[1].result)

(* lines 76-82: the vector string and the timestamp *)
FormatRow ==
    /\ handler_pc = "format"
    /\ IF \/ Embedding.t \notin {"list", "dict"}              \* line 79: map(str, embedding)
          \/ MetadataOf(ParsedBody(event)).t # "dict"         \* line 82: item assignment
       THEN response' = HandlerResponse(500, "TypeError") /\ handler_pc' = "returned"
       ELSE handler_pc' = "insert" /\ UNCHANGED response
    /\ UNCHANGED <<event, aws_calls>>
    /\ UNCHANGED <<callVars, concurrentVars, migrationVars>>

(* the execute_statement call of lines 92-103 *)
Insert(outcome) ==
    [api |-> "execute_statement",
     text |-> TextOf(ParsedBody(event)).s,
     embedding |-> EmbeddingStr(Embedding),
     metadata |-> MetaV(MetadataOf(ParsedBody(event)).keys \cup {"timestamp"}),   \* line 82
     outcome |-> outcome]

(* lines 92-111: execute_statement returns *)
InsertSucceeds ==
    /\ handler_pc = "insert"
    /\ aws_calls' = Append(aws_calls, Insert("returned"))
    /\ response' = HandlerResponse(200, "")
    /\ handler_pc' = "returned"
    /\ UNCHANGED event
    /\ UNCHANGED <<callVars, concurrentVars, migrationVars>>

(* lines 92-103, 112-117: execute_statement raises *)
InsertRaises ==
    /\ handler_pc = "insert"
    /\ aws_calls' = Append(aws_calls, Insert("raised"))
    /\ response' = HandlerResponse(500, "ClientError")
    /\ handler_pc' = "returned"
    /\ UNCHANGED event
    /\ UNCHANGED <<callVars, concurrentVars, migrationVars>>

NextIngest ==
    \/ LambdaHandler
    \/ ParseBody
    \/ Validate
    \/ GetEmbeddingReturns
    \/ GetEmbeddingRaises
    \/ FormatRow
    \/ InsertSucceeds
    \/ InsertRaises

SpecIngest == Init /\ [][NextIngest]_vars

-----------------------------------------------------------------------------
(* the request carries a dict, with text missing, null or empty *)
TextMissingOrEmpty ==
    /\ ParsedBody(event).t = "dict"
    /\ ParsedBody(event).text \in {Absent, None, StrV("")}

(* the body cannot be read as a dict *)
MalformedBody == ParsedBody(event).t # "dict"

AwsCallRaised == \E i \in 1..Len(aws_calls) : aws_calls[i].outcome = "raised"

(* the embedding call, then the insert, and the insert only after the      *)
(* embedding call has returned                                             *)
EmbeddingThenInsert ==
    /\ Len(aws_calls) <= 2
    /\ Len(aws_calls) >= 1 => aws_calls[1].api = "invoke_endpoint"
    /\ Len(aws_calls) = 2 =>
          /\ aws_calls[1].outcome = "returned"
          /\ aws_calls[2].api = "execute_statement"

(* C18: lambda_handler never raises and returns 200, 400 or 500; a request *)
(* whose text is missing or empty returns 400 with no call to the          *)
(* embedding endpoint or the database; 200 is returned only after the      *)
(* embedding call and then the insert have both completed; a malformed     *)
(* body, an embedding failure or an insert failure returns 500.            *)
C18_HandlerStatusCodes ==
    /\ handler_pc \in {"idle", "parse", "validate", "embed", "format", "insert", "returned"}
    /\ IF handler_pc = "returned"
       THEN response.statusCode \in {200, 400, 500}
       ELSE response = NoHandlerResponse
    /\ EmbeddingThenInsert
    /\ (handler_pc = "returned" /\ TextMissingOrEmpty) => response.statusCode = 400
    /\ response.statusCode = 400 => aws_calls = <<>>
    /\ response.statusCode = 200 =>
          /\ Len(aws_calls) = 2
          /\ aws_calls[1].outcome = "returned"
          /\ aws_calls[2].outcome = "returned"
    /\ (handler_pc = "returned" /\ (MalformedBody \/ AwsCallRaised)) =>
          response.statusCode = 500

C18_Witness ==
    /\ handler_pc = "returned"
    /\ response.statusCode = 200
    /\ event.body = StrV("{\"text\": \"doc\", \"metadata\": {\"source\": \"10-K\"}}")
    /\ Len(aws_calls) = 2
    /\ aws_calls[2].embedding = "[0.1,0.2]"
    /\ aws_calls[2].metadata = MetaV({"source", "timestamp"})

====
